---- MODULE Spec2Model ----
(***************************************************************************)
(* Model of kaleidoscope/parser.cpp: the lexer (gettok), the recursive     *)
(* descent parser (the parse_ functions) and the driver (main_loop and    *)
(* the handle_ functions).                                                 *)
(*                                                                         *)
(* Characters are one-character strings.  The value getchar() returns at   *)
(* end of input is EOF; stored into the `char last_char` it stays EOF      *)
(* where char is signed and becomes the character 0xFF where char is       *)
(* unsigned (the signedness of char is fixed by the build: charSigned).    *)
(* Tokens are what gettok returns: a tok_ tag or the character itself.     *)
(* AST nodes are records tagged by their class name; nullptr is Null.      *)
(***************************************************************************)
EXTENDS Integers, Sequences, FiniteSets, TLC

VARIABLES
    input,       \* the characters of stdin
    charSigned,  \* whether the build's plain char is signed
    pos,         \* number of characters getchar has delivered
    last_char,   \* gettok's static last_char
    IdentStr,    \* static std::string IdentStr
    NumVal,      \* static double NumVal
    CurTok,      \* static int CurTok
    stderr,      \* the messages log_error has written, oldest first
    pc,          \* "loop": at the top of main_loop's while; "done": returned
    prompts,     \* the number of "ready> " prompts printed, modulo 2
    hist         \* what the last iteration of main_loop did (observation only)

vars == <<input, charSigned, pos, last_char, IdentStr, NumVal, CurTok,
          stderr, pc, prompts, hist>>

(***************************************************************************)
(* Bounds of the model                                                     *)
(***************************************************************************)
MaxTail == 2

(***************************************************************************)
(* Lexer                                                                   *)
(***************************************************************************)
tok_eof == "tok_eof"
tok_def == "tok_def"
tok_extern == "tok_extern"
tok_ident == "tok_ident"
tok_num == "tok_num"

EOF == "EOF"
Char0xFF == "0xFF"

Lower == {"a","b","c","d","e","f","g","h","i","j","k","l","m",
          "n","o","p","q","r","s","t","u","v","w","x","y","z"}
Upper == {"A","B","C","D","E","F","G","H","I","J","K","L","M",
          "N","O","P","Q","R","S","T","U","V","W","X","Y","Z"}
Digits == {"0","1","2","3","4","5","6","7","8","9"}

isspace(c) == c \in {" ", "\t", "\n", "\r"}
isalpha(c) == c \in Lower \cup Upper
isdigit(c) == c \in Digits
isalnum(c) == isalpha(c) \/ isdigit(c)

DigitVal(c) ==
    CASE c = "0" -> 0 [] c = "1" -> 1 [] c = "2" -> 2 [] c = "3" -> 3
      [] c = "4" -> 4 [] c = "5" -> 5 [] c = "6" -> 6 [] c = "7" -> 7
      [] c = "8" -> 8 [] c = "9" -> 9

\* The int getchar() returns, narrowed to the build's char.
ToChar(signed, c) == IF c = EOF /\ ~signed THEN Char0xFF ELSE c

\* last_char = getchar(): the state after the read.
getchar(s) ==
    IF s.pos < Len(input)
    THEN [s EXCEPT !.last_char = ToChar(charSigned, input[s.pos + 1]),
                   !.pos = s.pos + 1]
    ELSE [s EXCEPT !.last_char = ToChar(charSigned, EOF)]

\* while (isspace(last_char)) last_char = getchar();
RECURSIVE SkipSpace(_)
SkipSpace(s) == IF isspace(s.last_char) THEN SkipSpace(getchar(s)) ELSE s

\* while (isalnum(last_char = getchar())) IdentStr += last_char;
RECURSIVE LexIdentRest(_)
LexIdentRest(s) ==
    LET t == getchar(s)
    IN  IF isalnum(t.last_char)
        THEN LexIdentRest([t EXCEPT !.IdentStr = t.IdentStr \o t.last_char])
        ELSE t

\* while (isdigit(last_char) || last_char == '.') { numstr += ...; getchar }
\* yields the state after the loop and the numstr accumulated.
RECURSIVE LexNumRest(_, _)
LexNumRest(s, numstr) ==
    IF isdigit(s.last_char) \/ s.last_char = "."
    THEN LexNumRest(getchar(s), Append(numstr, s.last_char))
    ELSE [s |-> s, numstr |-> numstr]

\* The longest prefix of cs made of digits.
RECURSIVE DigitPrefix(_)
DigitPrefix(cs) ==
    IF cs # <<>> /\ isdigit(Head(cs))
    THEN <<Head(cs)>> \o DigitPrefix(Tail(cs))
    ELSE <<>>

RECURSIVE DigitsValue(_)
DigitsValue(ds) ==
    IF ds = <<>> THEN 0
    ELSE 10 * DigitsValue(SubSeq(ds, 1, Len(ds) - 1)) + DigitVal(ds[Len(ds)])

RECURSIVE StripZeros(_)
StripZeros(ds) ==
    IF ds # <<>> /\ ds[Len(ds)] = "0"
    THEN StripZeros(SubSeq(ds, 1, Len(ds) - 1))
    ELSE ds

\* strtod(numstr, nullptr) on a string of digits and points: the decimal
\* number read up to (not including) a second point, as <<m, e>> standing
\* for m * 10^(-e), e the least possible.  No digits at all converts to 0.
strtod(numstr) ==
    LET ip   == DigitPrefix(numstr)
        rest == SubSeq(numstr, Len(ip) + 1, Len(numstr))
        fp   == IF rest # <<>> /\ Head(rest) = "."
                THEN StripZeros(DigitPrefix(Tail(rest)))
                ELSE <<>>
    IN  <<DigitsValue(ip \o fp), Len(fp)>>

\* gettok(): the token returned (tok) and the lexer state after the call (s).
\* gettok_ident and gettok_num are its two returns after a loop; gettok_at
\* is the function from the first if on, in the state the whitespace loop
\* leaves.
gettok_ident_no_extern(s) ==          \* without the test for "extern"
    [tok |-> IF s.IdentStr = "def" THEN tok_def ELSE tok_ident,
     s |-> s]

gettok_ident(s) ==
    [tok |-> IF s.IdentStr = "def" THEN tok_def
             ELSE IF s.IdentStr = "extern" THEN tok_extern
             ELSE tok_ident,
     s |-> s]

gettok_num(r) ==
    [tok |-> tok_num, s |-> [r.s EXCEPT !.NumVal = strtod(r.numstr)]]

\* gettok that on EOF returns tok_eof and forgets the EOF it has read,
\* resetting last_char to its initial blank.
gettok_at_eof_reset(s) ==
    IF isalpha(s.last_char)
    THEN gettok_ident(LexIdentRest([s EXCEPT !.IdentStr = s.last_char]))
    ELSE IF isdigit(s.last_char) \/ s.last_char = "."
    THEN gettok_num(LexNumRest(getchar(s), <<s.last_char>>))
    ELSE IF s.last_char = EOF
    THEN [tok |-> tok_eof, s |-> [s EXCEPT !.last_char = " "]]
    ELSE [tok |-> s.last_char, s |-> getchar(s)]

\* gettok whose identifier branch appends to IdentStr instead of assigning.
gettok_at_append(s) ==
    IF isalpha(s.last_char)
    THEN gettok_ident(
             LexIdentRest([s EXCEPT !.IdentStr = s.IdentStr \o s.last_char]))
    ELSE IF isdigit(s.last_char) \/ s.last_char = "."
    THEN gettok_num(LexNumRest(getchar(s), <<s.last_char>>))
    ELSE IF s.last_char = EOF
    THEN [tok |-> tok_eof, s |-> s]
    ELSE [tok |-> s.last_char, s |-> getchar(s)]

gettok_at(s) ==
    IF isalpha(s.last_char)
    THEN gettok_ident(LexIdentRest([s EXCEPT !.IdentStr = s.last_char]))
    ELSE IF isdigit(s.last_char) \/ s.last_char = "."
    THEN gettok_num(LexNumRest(getchar(s), <<s.last_char>>))
    ELSE IF s.last_char = EOF
    THEN [tok |-> tok_eof, s |-> s]
    ELSE [tok |-> s.last_char, s |-> getchar(s)]

gettok(s) == gettok_at(SkipSpace(s))

\* is_op that takes '/' for an operator too.
is_op_div(op) == (op = "+") \/ (op = "-") \/ (op = "*") \/ (op = "/")

is_op(op) == (op = "+") \/ (op = "-") \/ (op = "*")

\* CurTok = gettok()
set_CurTok(g) == [g.s EXCEPT !.CurTok = g.tok]

get_next_token(s) == set_CurTok(gettok(s))

(***************************************************************************)
(* AST                                                                     *)
(***************************************************************************)
Null == [type |-> "nullptr"]

NumExpr(val) == [type |-> "NumExpr", val |-> val]
VarExpr(name) == [type |-> "VarExpr", name |-> name]
BinaryExpr(op, lhs, rhs) ==
    [type |-> "BinaryExpr", op |-> op, lhs |-> lhs, rhs |-> rhs]
CallExpr(callee, args) ==
    [type |-> "CallExpr", callee |-> callee, args |-> args]
FuncPrototype(name, args) ==
    [type |-> "FuncPrototype", name |-> name, args |-> args]
FunctionExpr(proto, body) ==
    [type |-> "FunctionExpr", proto |-> proto, body |-> body]

(***************************************************************************)
(* Parser.  Every parse function takes the state it is called in and       *)
(* yields the node it returns (Null for nullptr) and the state it returns  *)
(* in.  A function is written as one operator per stretch of straight-line *)
(* code: f is the function from its entry, and each f_... continues it     *)
(* from the point where a call it made has returned, taking what that call *)
(* yielded.                                                                *)
(***************************************************************************)

\* log_error / log_error_p: one message on stderr (with the current token,
\* which print_curtok prints), and nullptr.
log_error(s, str) ==
    [node |-> Null,
     s |-> [s EXCEPT !.stderr = Append(@, [msg |-> str, tok |-> s.CurTok])]]

log_error_p(s, str) == log_error(s, str)

\* A loop left by a return of log_error (ok = FALSE) or by break (ok = TRUE).
LoopFailed(args, r) == [ok |-> FALSE, args |-> args, s |-> r.s]
LoopDone(args, s) == [ok |-> TRUE, args |-> args, s |-> s]

RECURSIVE parse_expr(_)
RECURSIVE parse_primary(_)
RECURSIVE parse_ident(_)
RECURSIVE parse_ident_name(_, _)
RECURSIVE parse_ident_paren(_, _)
RECURSIVE parse_ident_loop(_, _)
RECURSIVE parse_ident_arg(_, _)
RECURSIVE parse_binop_rhs(_, _)
RECURSIVE parse_binop_rhs_rhs(_, _, _)
RECURSIVE parse_prototype_loop(_, _)
RECURSIVE parse_prototype_arg(_, _)

\* parse_ident's while (true), entered with the arguments pushed so far;
\* parse_ident_arg: the loop body once parse_expr() has returned arg.
parse_ident_arg(args, arg) ==
    IF arg.node = Null
    THEN LoopFailed(args, log_error(arg.s, "failed to parse argument"))
    ELSE IF arg.s.CurTok = ")"
    THEN LoopDone(Append(args, arg.node), arg.s)
    ELSE IF arg.s.CurTok # ","
    THEN LoopFailed(Append(args, arg.node),
                    log_error(arg.s, "expected ',' or ')' in argument list"))
    ELSE parse_ident_loop(get_next_token(arg.s), Append(args, arg.node))

parse_ident_loop(s, args) == parse_ident_arg(args, parse_expr(s))

\* parse_ident once its loop has ended.
parse_ident_call(name, r) ==
    IF r.ok
    THEN [node |-> CallExpr(name, r.args),
          s |-> get_next_token(r.s)]                  \* eat the ')'
    ELSE [node |-> Null, s |-> r.s]

\* parse_ident once '(' is eaten.
parse_ident_paren(name, s) ==
    IF s.CurTok # ")"
    THEN parse_ident_call(name, parse_ident_loop(s, <<>>))
    ELSE [node |-> CallExpr(name, <<>>), s |-> s]

\* parse_ident once the name is eaten.
parse_ident_name(name, s) ==
    IF s.CurTok # "("
    THEN [node |-> VarExpr(name), s |-> s]
    ELSE parse_ident_paren(name, get_next_token(s))   \* eat '('

parse_ident(s) == parse_ident_name(s.IdentStr, get_next_token(s))

parse_number(s) ==
    [node |-> NumExpr(s.NumVal), s |-> get_next_token(s)]

\* parse_primary whose default case eats the token it rejects.
parse_primary_eats(s) ==
    IF s.CurTok = tok_ident THEN parse_ident(s)
    ELSE IF s.CurTok = tok_num THEN parse_number(s)
    ELSE log_error(get_next_token(s), "unknown token type")

\* parse_primary whose default case returns nullptr without a message.
parse_primary_silent(s) ==
    IF s.CurTok = tok_ident THEN parse_ident(s)
    ELSE IF s.CurTok = tok_num THEN parse_number(s)
    ELSE [node |-> Null, s |-> s]

parse_primary(s) ==
    IF s.CurTok = tok_ident THEN parse_ident(s)
    ELSE IF s.CurTok = tok_num THEN parse_number(s)
    ELSE log_error(s, "unknown token type")

\* parse_binop_rhs's loop body once parse_primary() has returned rhs.
parse_binop_rhs_rhs(op, cur, rhs) ==
    IF rhs.node = Null
    THEN log_error(rhs.s,
            "could not parse right hand side of binary expression")
    ELSE parse_binop_rhs(rhs.s, BinaryExpr(op, cur, rhs.node))

parse_binop_rhs(s, cur) ==
    IF ~is_op(s.CurTok)
    THEN [node |-> cur, s |-> s]
    ELSE parse_binop_rhs_rhs(s.CurTok, cur,
                             parse_primary(get_next_token(s)))

\* parse_expr once parse_primary() has returned lhs.
parse_expr_lhs(lhs) ==
    IF lhs.node = Null
    THEN [node |-> Null, s |-> lhs.s]
    ELSE parse_binop_rhs(lhs.s, lhs.node)

parse_expr(s) == parse_expr_lhs(parse_primary(s))

\* parse_prototype's loop body going on to the next name without a comma.
parse_prototype_arg_spaces(argnames, aname) ==
    IF aname.node = Null
    THEN LoopFailed(argnames,
            log_error_p(aname.s,
                "in argument list in function prototype expected identifier"))
    ELSE IF aname.s.CurTok = ")"
    THEN LoopDone(Append(argnames, aname.node), aname.s)
    ELSE IF aname.s.CurTok = tok_ident
    THEN parse_prototype_loop(aname.s, Append(argnames, aname.node))
    ELSE IF aname.s.CurTok # ","
    THEN LoopFailed(Append(argnames, aname.node),
            log_error_p(aname.s, "expected ',' or ')' in argument list"))
    ELSE parse_prototype_loop(get_next_token(aname.s),
                              Append(argnames, aname.node))

\* parse_prototype's while (true), entered with the names pushed so far;
\* parse_prototype_arg: the loop body once parse_ident() has returned aname.
parse_prototype_arg(argnames, aname) ==
    IF aname.node = Null
    THEN LoopFailed(argnames,
            log_error_p(aname.s,
                "in argument list in function prototype expected identifier"))
    ELSE IF aname.s.CurTok = ")"
    THEN LoopDone(Append(argnames, aname.node), aname.s)
    ELSE IF aname.s.CurTok # ","
    THEN LoopFailed(Append(argnames, aname.node),
            log_error_p(aname.s, "expected ',' or ')' in argument list"))
    ELSE parse_prototype_loop(get_next_token(aname.s),
                              Append(argnames, aname.node))

parse_prototype_loop(s, argnames) ==
    parse_prototype_arg(argnames, parse_ident(s))

\* parse_prototype once its loop has ended.
parse_prototype_proto(name, r) ==
    IF r.ok
    THEN [node |-> FuncPrototype(name, r.args),
          s |-> get_next_token(r.s)]                  \* eat the ')'
    ELSE [node |-> Null, s |-> r.s]

\* parse_prototype once '(' is eaten.
parse_prototype_paren(name, s) ==
    IF s.CurTok # ")"
    THEN parse_prototype_proto(name, parse_prototype_loop(s, <<>>))
    ELSE [node |-> FuncPrototype(name, <<>>), s |-> s]

\* parse_prototype once the name is eaten.
parse_prototype_name(name, s) ==
    IF s.CurTok # "("
    THEN log_error_p(s, "expected (")
    ELSE parse_prototype_paren(name, get_next_token(s))   \* eat '('

parse_prototype(s) ==
    IF s.CurTok # tok_ident
    THEN log_error_p(s, "expected function name")
    ELSE parse_prototype_name(s.IdentStr, get_next_token(s))  \* eat name

\* parse_definition building the FunctionExpr without testing the body.
parse_definition_body_unchecked(proto, body) ==
    [node |-> FunctionExpr(proto.node, body.node), s |-> body.s]

\* parse_definition once parse_expr() has returned body.
parse_definition_body(proto, body) ==
    IF body.node = Null
    THEN log_error(body.s, "expected function body")
    ELSE [node |-> FunctionExpr(proto.node, body.node), s |-> body.s]

\* parse_definition once parse_prototype() has returned proto.
parse_definition_proto(proto) ==
    IF proto.node = Null
    THEN [node |-> Null, s |-> proto.s]
    ELSE parse_definition_body(proto, parse_expr(proto.s))

parse_definition(s) ==
    parse_definition_proto(parse_prototype(get_next_token(s)))  \* eat 'def'

\* parse_toplevel_expr returning the expression without the wrapper.
parse_toplevel_expr_e_bare(e) == [node |-> e.node, s |-> e.s]

\* parse_toplevel_expr once parse_expr() has returned e.
parse_toplevel_expr_e(e) ==
    IF e.node # Null
    THEN [node |-> FunctionExpr(FuncPrototype("__anon_expr", <<>>), e.node),
          s |-> e.s]
    ELSE [node |-> Null, s |-> e.s]

parse_toplevel_expr(s) == parse_toplevel_expr_e(parse_expr(s))

\* parse_extern that leaves 'extern' as the current token.
parse_extern_keep(s) == parse_prototype(s)

parse_extern(s) == parse_prototype(get_next_token(s))  \* eat the 'extern'

(***************************************************************************)
(* Inputs: a text (one of the Heads, possibly empty) followed by up to     *)
(* MaxTail further lexemes, each after one space.                          *)
(***************************************************************************)
InDefSpaces == \* def foo(x y) x+y
    <<"d", "e", "f", " ", "f", "o", "o", "(", "x", " ", "y", ")", " ", "x", "+", "y">>
InDefCommas == \* def foo(x, y) x+y
    <<"d", "e", "f", " ", "f", "o", "o", "(", "x", ",", " ", "y", ")", " ", "x", "+", "y">>
InExtern == \* extern sin(x)
    <<"e", "x", "t", "e", "r", "n", " ", "s", "i", "n", "(", "x", ")">>
InFlat == \* 1-2*3
    <<"1", "-", "2", "*", "3">>
InNumber == \* 3.14
    <<"3", ".", "1", "4">>
InCall == \* foo(1, 2)
    <<"f", "o", "o", "(", "1", ",", " ", "2", ")">>
InCallEmpty == \* foo()
    <<"f", "o", "o", "(", ")">>
InDefOpen == \* def foo(
    <<"d", "e", "f", " ", "f", "o", "o", "(">>
InExternOpen == \* extern f(
    <<"e", "x", "t", "e", "r", "n", " ", "f", "(">>
InDefCallParam == \* def f(g(1
    <<"d", "e", "f", " ", "f", "(", "g", "(", "1">>
InCallOpen == \* f(
    <<"f", "(">>
InCallNested == \* f(g()
    <<"f", "(", "g", "(", ")">>
InKeywordLike == \* define externs
    <<"d", "e", "f", "i", "n", "e", " ", "e", "x", "t", "e", "r", "n", "s">>
InSlash == \* def1/2
    <<"d", "e", "f", "1", "/", "2">>

InCallNestedTwo == \* f(g(), 1)
    <<"f", "(", "g", "(", ")", ",", " ", "1", ")">>
InExternCallOpen == \* extern f(x(
    <<"e", "x", "t", "e", "r", "n", " ", "f", "(", "x", "(">>
InCloseParen == \* )
    <<")">>

Heads == {<<>>, InDefSpaces, InDefCommas, InExtern, InFlat,
          InNumber, InCall, InCallEmpty, InDefOpen,
          InExternOpen, InDefCallParam, InCallOpen, InCallNested,
          InKeywordLike, InSlash, InCallNestedTwo, InExternCallOpen,
          InCloseParen}

TailLexemes == {<<"x">>, <<"1">>, <<"(">>, <<")">>, <<",">>, <<"+">>,
                <<"*">>, <<";">>}

RECURSIVE Tails(_)
Tails(n) ==
    IF n = 0 THEN {<<>>}
    ELSE LET shorter == Tails(n - 1)
         IN  shorter \cup {t \o <<" ">> \o l : t \in shorter, l \in TailLexemes}

Inputs == {h \o t : h \in Heads, t \in Tails(MaxTail)}

(***************************************************************************)
(* Driver                                                                  *)
(***************************************************************************)
CharNUL == "0x00"

\* The statics the lexer and the parser share, as one record.
St == [last_char |-> last_char, pos |-> pos, IdentStr |-> IdentStr,
       NumVal |-> NumVal, CurTok |-> CurTok, stderr |-> stderr]

SetSt(s) ==
    /\ last_char' = s.last_char
    /\ pos' = s.pos
    /\ IdentStr' = s.IdentStr
    /\ NumVal' = s.NumVal
    /\ CurTok' = s.CurTok
    /\ stderr' = s.stderr

\* The else branch of a handler: get_next_token() when the parse returned
\* nullptr.  Yields the node the parse returned, the state it returned in
\* (ret) and the state the handler returns in (s).
Handled(r) ==
    [node |-> r.node, ret |-> r.s,
     s |-> IF r.node # Null THEN r.s ELSE get_next_token(r.s)]

handle_definition(s) == Handled(parse_definition(s))

handle_toplevel_expr(s) == Handled(parse_toplevel_expr(s))

handle_extern(s) == Handled(parse_extern(s))

Handlers == {"definition", "extern", "toplevel_expr"}

\* The top of main_loop's while: get_next_token(), in the state the switch
\* reads.  stderr holds what this iteration has written.
Dispatch == get_next_token([St EXCEPT !.stderr = <<>>])

\* hist: the case this iteration took (op), the state at its switch (at),
\* the node its parse returned (node), the state that parse returned in
\* (ret), and the same of the iteration before (prev).
Observe(op, at, node, ret) ==
    hist' = [op |-> op, at |-> at, node |-> node, ret |-> ret,
             prev |-> [op |-> hist.op, node |-> hist.node, ret |-> hist.ret]]

\* printf("ready> ") at the top of main_loop's while.
Prompt == prompts' = 1 - prompts

\* case tok_eof and case ';': nothing is parsed.
case_skip(op, tok, d) ==
    /\ d.CurTok = tok
    /\ Prompt
    /\ SetSt(d)
    /\ Observe(op, d, Null, d)

\* A case that calls a handler: h is what the handler yields.
case_handle(op, d, h) ==
    /\ Prompt
    /\ SetSt(h.s)
    /\ Observe(op, d, h.node, h.ret)

case_definition(d) ==
    /\ d.CurTok = tok_def
    /\ case_handle("definition", d, handle_definition(d))

case_extern(d) ==
    /\ d.CurTok = tok_extern
    /\ case_handle("extern", d, handle_extern(d))

case_default(d) ==
    /\ d.CurTok \notin {tok_eof, ";", tok_def, tok_extern}
    /\ case_handle("toplevel_expr", d, handle_toplevel_expr(d))

MainLoopEof ==
    /\ pc = "loop"
    /\ case_skip("eof", tok_eof, Dispatch)
    /\ pc' = "done"
    /\ UNCHANGED <<input, charSigned>>

MainLoopSemi ==
    /\ pc = "loop"
    /\ case_skip("semi", ";", Dispatch)
    /\ UNCHANGED <<input, charSigned, pc>>

HandleDefinition ==
    /\ pc = "loop"
    /\ case_definition(Dispatch)
    /\ UNCHANGED <<input, charSigned, pc>>

HandleExtern ==
    /\ pc = "loop"
    /\ case_extern(Dispatch)
    /\ UNCHANGED <<input, charSigned, pc>>

HandleToplevelExpr ==
    /\ pc = "loop"
    /\ case_default(Dispatch)
    /\ UNCHANGED <<input, charSigned, pc>>

Init ==
    /\ input \in Inputs
    /\ charSigned \in BOOLEAN
    /\ pos = 0
    /\ last_char = " "
    /\ IdentStr = ""
    /\ NumVal = <<0, 0>>
    /\ CurTok = CharNUL
    /\ stderr = <<>>
    /\ pc = "loop"
    /\ prompts = 0
    /\ hist = [op |-> "start", at |-> St, node |-> Null, ret |-> St,
               prev |-> [op |-> "start", node |-> Null, ret |-> St]]

Next ==
    \/ MainLoopEof
    \/ MainLoopSemi
    \/ HandleDefinition
    \/ HandleExtern
    \/ HandleToplevelExpr

Spec == Init /\ [][Next]_vars

\* main_loop is one sequential loop: while it has not returned, its next
\* iteration is taken.  Every step of Next is an iteration, which begins by
\* printing the prompt, and one is possible exactly while pc = "loop" (the
\* switch has a default case).
NextIteration == pc = "loop" /\ Prompt

FairSpec == Spec /\ WF_prompts(NextIteration)

(***************************************************************************)
(* What the claims speak of: the token stream, and the trees the grammar   *)
(* assigns to token sequences of given shapes (read off the tokens, not    *)
(* through the parser).                                                    *)
(***************************************************************************)

\* The current token of a state, with its payload.
Cur(s) == [tok |-> s.CurTok, IdentStr |-> s.IdentStr, NumVal |-> s.NumVal]

\* What gettok returns once the input is exhausted.
EndTok == IF charSigned THEN tok_eof ELSE Char0xFF

\* The tokens from the current one of s to the end of the input.
RECURSIVE TokensFrom(_)
TokensFrom(s) ==
    IF s.CurTok = EndTok THEN <<>>
    ELSE <<Cur(s)>> \o TokensFrom(get_next_token(s))

\* Whether two states have the lexer and the current token in the same place.
SameCursor(a, b) ==
    /\ a.pos = b.pos
    /\ a.last_char = b.last_char
    /\ Cur(a) = Cur(b)

\* The tokens a parse consumed on its way from state a to state b.
RECURSIVE Consumed(_, _)
Consumed(a, b) ==
    IF SameCursor(a, b) \/ a.CurTok = EndTok THEN <<>>
    ELSE <<Cur(a)>> \o Consumed(get_next_token(a), b)

NoPrim == [len |-> 0, node |-> Null]

IsAtomTok(t) == t.tok \in {tok_num, tok_ident}
AtomNode(t) ==
    IF t.tok = tok_num THEN NumExpr(t.NumVal) ELSE VarExpr(t.IdentStr)

\* The primary standing at ts[i], for the shapes: number, variable, and
\* (with calls allowed) f() and f(a) with a a number or a variable.
\* len is the number of tokens it takes; 0 when none of these stands there.
PrimAt(ts, i, calls) ==
    IF i > Len(ts) THEN NoPrim
    ELSE IF ts[i].tok = tok_num THEN [len |-> 1, node |-> AtomNode(ts[i])]
    ELSE IF ts[i].tok # tok_ident THEN NoPrim
    ELSE IF ~(i + 1 <= Len(ts) /\ ts[i + 1].tok = "(")
    THEN [len |-> 1, node |-> AtomNode(ts[i])]
    ELSE IF ~calls THEN NoPrim
    ELSE IF i + 2 <= Len(ts) /\ ts[i + 2].tok = ")"
    THEN [len |-> 3, node |-> CallExpr(ts[i].IdentStr, <<>>)]
    ELSE IF i + 3 <= Len(ts) /\ IsAtomTok(ts[i + 2]) /\ ts[i + 3].tok = ")"
    THEN [len |-> 4,
          node |-> CallExpr(ts[i].IdentStr, <<AtomNode(ts[i + 2])>>)]
    ELSE NoPrim

\* ts[i..] continuing p0 op1 p1 ... with acc the tree of what precedes:
\* the left-nested tree when ts ends after a primary, Null when ts is not
\* of that form.
RECURSIVE Chain(_, _, _, _)
Chain(ts, i, acc, calls) ==
    IF i > Len(ts) THEN acc
    ELSE IF is_op(ts[i].tok) /\ PrimAt(ts, i + 1, calls).len > 0
    THEN Chain(ts, i + 1 + PrimAt(ts, i + 1, calls).len,
               BinaryExpr(ts[i].tok, acc, PrimAt(ts, i + 1, calls).node),
               calls)
    ELSE Null

\* The tree of ts when ts is p0 op1 p1 ... opN pN, else Null.
ChainTree(ts, calls) ==
    IF PrimAt(ts, 1, calls).len = 0 THEN Null
    ELSE Chain(ts, 1 + PrimAt(ts, 1, calls).len,
               PrimAt(ts, 1, calls).node, calls)

\* The last iteration called a handler whose parse returned nullptr.
Failed(h) == h.op \in Handlers /\ h.node = Null

(***************************************************************************)
(* C1.  For every input p0 op1 p1 ... opN pN (primaries: numbers,          *)
(* variables, calls; operators + - *; no parentheses around operands),     *)
(* parse_expr yields the strictly left-nested tree.                        *)
(* Stated for the state in which handle_toplevel_expr calls parse_expr.    *)
(***************************************************************************)
C1_LeftNested ==
    hist.op = "toplevel_expr" =>
        LET want == ChainTree(TokensFrom(hist.at), TRUE)
        IN  want # Null => parse_expr(hist.at).node = want

\* A list that does not have the asked shape.
NoList == [ok |-> FALSE, items |-> <<>>, next |-> 0]

\* ts[i..] read as parameter names up to ')': identifiers separated by ','
\* (commas = TRUE) or by nothing but whitespace (commas = FALSE).  items are
\* the names as the nodes parse_prototype stores, next the index after ')'.
RECURSIVE NameList(_, _, _, _)
NameList(ts, i, commas, acc) ==
    IF ~(i + 1 <= Len(ts) /\ ts[i].tok = tok_ident) THEN NoList
    ELSE IF ts[i + 1].tok = ")"
    THEN [ok |-> TRUE, items |-> Append(acc, VarExpr(ts[i].IdentStr)),
          next |-> i + 2]
    ELSE IF commas /\ ts[i + 1].tok = ","
    THEN NameList(ts, i + 2, commas, Append(acc, VarExpr(ts[i].IdentStr)))
    ELSE IF ~commas /\ ts[i + 1].tok = tok_ident
    THEN NameList(ts, i + 1, commas, Append(acc, VarExpr(ts[i].IdentStr)))
    ELSE NoList

\* ts read as  def name ( names ) body  with body a chain of numbers and
\* variables: the FunctionExpr the grammar assigns to it, else Null.
DefTree(ts, commas, minNames) ==
    IF ~(Len(ts) >= 3 /\ ts[1].tok = tok_def /\ ts[2].tok = tok_ident
         /\ ts[3].tok = "(")
    THEN Null
    ELSE LET names == NameList(ts, 4, commas, <<>>)
             body  == IF names.ok
                      THEN ChainTree(SubSeq(ts, names.next, Len(ts)), FALSE)
                      ELSE Null
         IN  IF names.ok /\ Len(names.items) >= minNames /\ body # Null
             THEN FunctionExpr(FuncPrototype(ts[2].IdentStr, names.items),
                               body)
             ELSE Null

\* The text is exactly the given characters.
InputIs(text) == input = text

(***************************************************************************)
(* C2 as claimed.  A definition whose parameter names are separated only   *)
(* by whitespace parses to the FunctionExpr with those parameters in       *)
(* source order: "def foo(x y) x+y" yields                                 *)
(* FunctionDef{Prototype{foo,[x,y]}, BinaryOp(+, x, y)}.                   *)
(***************************************************************************)
C2_WhitespaceParams ==
    hist.op = "definition" =>
        LET want == DefTree(TokensFrom(hist.at), FALSE, 2)
        IN  want # Null => hist.node = want

(***************************************************************************)
(* C2 as amended.  A definition whose parameter names are separated by     *)
(* commas parses to the FunctionExpr with those parameters in source       *)
(* order ("def foo(x, y) x+y" yields FunctionDef{Prototype{foo,[x,y]},     *)
(* BinaryOp(+, x, y)}); with names separated only by whitespace,           *)
(* parse_prototype reports "expected ',' or ')' in argument list" and      *)
(* parse_definition returns no node.                                       *)
(***************************************************************************)
C2_CommaParams ==
    hist.op = "definition" =>
        LET ts     == TokensFrom(hist.at)
            commas == DefTree(ts, TRUE, 1)
            spaces == DefTree(ts, FALSE, 2)
        IN  /\ commas # Null => hist.node = commas
            /\ InputIs(InDefCommas) =>
                   hist.node =
                       FunctionExpr(
                           FuncPrototype("foo", <<VarExpr("x"), VarExpr("y")>>),
                           BinaryExpr("+", VarExpr("x"), VarExpr("y")))
            /\ spaces # Null =>
                   /\ hist.node = Null
                   /\ hist.ret.stderr =
                          <<[msg |-> "expected ',' or ')' in argument list",
                             tok |-> tok_ident]>>

\* "def foo(x, y) x+y" has been parsed to a FunctionExpr with two parameters.
C2_Witness ==
    /\ hist.op = "definition"
    /\ InputIs(InDefCommas)
    /\ hist.node # Null
    /\ Len(hist.node.proto.args) = 2
    /\ hist.node.body.type = "BinaryExpr"

(***************************************************************************)
(* C3.  Every Prototype parse_prototype returns (through parse_definition  *)
(* or parse_extern) has a parameter list made only of plain names, each    *)
(* taken from an identifier token standing in that parameter position; a   *)
(* call shape or a token that is not an identifier in a parameter position *)
(* makes parse_prototype fail.                                             *)
(***************************************************************************)
C3_PlainNames ==
    hist.op \in {"definition", "extern"} =>
        LET entry  == get_next_token(hist.at)     \* 'def' / 'extern' eaten
            proto  == parse_prototype(entry)
            inside == SubSeq(Consumed(entry, proto.s), 3,
                             Len(Consumed(entry, proto.s)))
            params == SelectSeq(inside, LAMBDA t : t.tok \notin {",", ")"})
        IN  proto.node # Null =>
                /\ Len(proto.node.args) = Len(params)
                /\ \A i \in 1..Len(params) :
                       /\ params[i].tok = tok_ident
                       /\ proto.node.args[i] = VarExpr(params[i].IdentStr)

\* ts[i..] read as call arguments up to ')': primaries separated by ','.
RECURSIVE ArgList(_, _, _)
ArgList(ts, i, acc) ==
    IF i <= Len(ts) /\ ts[i].tok = ")" /\ acc = <<>>
    THEN [ok |-> TRUE, items |-> acc, next |-> i + 1]
    ELSE LET p == PrimAt(ts, i, TRUE)
             j == i + p.len
         IN  IF p.len = 0 \/ j > Len(ts) THEN NoList
             ELSE IF ts[j].tok = ")"
             THEN [ok |-> TRUE, items |-> Append(acc, p.node), next |-> j + 1]
             ELSE IF ts[j].tok = ","
             THEN ArgList(ts, j + 1, Append(acc, p.node))
             ELSE NoList

(***************************************************************************)
(* C4.  For every identifier f followed by ( e1 , ... , en ) with n >= 0   *)
(* well-formed argument expressions, parse_ident yields                    *)
(* Call{callee: f, args: [e1..en]}: exactly n arguments, in source order;  *)
(* n = 0 yields an empty argument list.                                    *)
(* Stated for the state in which parse_primary calls parse_ident, with     *)
(* arguments that are primaries.                                           *)
(***************************************************************************)
C4_CallArgs ==
    (hist.op = "toplevel_expr" /\ hist.at.CurTok = tok_ident) =>
        LET ts   == TokensFrom(hist.at)
            args == IF Len(ts) >= 2 /\ ts[2].tok = "("
                    THEN ArgList(ts, 3, <<>>)
                    ELSE NoList
        IN  args.ok =>
                parse_ident(hist.at).node = CallExpr(ts[1].IdentStr, args.items)

\* A tree with no nullptr anywhere in it.
RECURSIVE WellFormed(_)
WellFormed(n) ==
    CASE n.type \in {"NumExpr", "VarExpr"} -> TRUE
      [] n.type = "BinaryExpr" ->
            is_op(n.op) /\ WellFormed(n.lhs) /\ WellFormed(n.rhs)
      [] n.type \in {"CallExpr", "FuncPrototype"} ->
            \A i \in 1..Len(n.args) : WellFormed(n.args[i])
      [] n.type = "FunctionExpr" -> WellFormed(n.proto) /\ WellFormed(n.body)
      [] OTHER -> FALSE

(***************************************************************************)
(* C5.  Failure is atomic and propagates: a rule whose sub-rule signals    *)
(* failure returns nullptr and never a node.  A top-level parse returns a  *)
(* node only if no rule under it reported a failure, and the node holds no *)
(* nullptr; parse_definition returns a FunctionExpr only when both the     *)
(* prototype and the body parsed, and then of exactly these two;           *)
(* parse_extern fails when parse_prototype does, parse_toplevel_expr when  *)
(* parse_expr does, parse_expr when parse_primary does, parse_primary      *)
(* when parse_ident does.                                                  *)
(***************************************************************************)
C5_FailurePropagates ==
    hist.op \in Handlers =>
        LET entry == get_next_token(hist.at)
            proto == parse_prototype(entry)
            body  == parse_expr(proto.s)
        IN  /\ hist.node # Null =>
                   WellFormed(hist.node) /\ hist.ret.stderr = <<>>
            /\ hist.op = "definition" =>
                   /\ (proto.node = Null \/ body.node = Null) =>
                          hist.node = Null
                   /\ hist.node # Null =>
                          hist.node = FunctionExpr(proto.node, body.node)
            /\ hist.op = "extern" =>
                   (proto.node = Null => hist.node = Null)
            /\ hist.op = "toplevel_expr" =>
                   /\ parse_expr(hist.at).node = Null => hist.node = Null
                   /\ parse_primary(hist.at).node = Null =>
                          parse_expr(hist.at).node = Null
                   /\ (hist.at.CurTok = tok_ident
                          /\ parse_ident(hist.at).node = Null) =>
                          parse_primary(hist.at).node = Null

\* A definition whose prototype parsed and whose body failed below
\* parse_expr (in parse_binop_rhs) has returned no node.
C5_Witness ==
    /\ hist.op = "definition"
    /\ parse_prototype(get_next_token(hist.at)).node # Null
    /\ hist.node = Null
    /\ Len(hist.ret.stderr) >= 3

\* Whether the parameter list opened before ts[i] is still open when ts
\* ends, depth counting the parentheses opened since.
RECURSIVE Unclosed(_, _, _)
Unclosed(ts, i, depth) ==
    IF i > Len(ts) THEN TRUE
    ELSE IF ts[i].tok = "(" THEN Unclosed(ts, i + 1, depth + 1)
    ELSE IF ts[i].tok = ")"
    THEN depth > 0 /\ Unclosed(ts, i + 1, depth - 1)
    ELSE Unclosed(ts, i + 1, depth)

(***************************************************************************)
(* C6.  Whenever the input ends before the closing ')' of a prototype's    *)
(* parameter list, parse_prototype returns failure and parse_definition /  *)
(* parse_extern return no node: no Prototype is produced.                  *)
(***************************************************************************)
C6_UnclosedParams ==
    hist.op \in {"definition", "extern"} =>
        LET ts == TokensFrom(hist.at)
        IN  (/\ Len(ts) >= 3
             /\ ts[2].tok = tok_ident
             /\ ts[3].tok = "("
             /\ Unclosed(ts, 4, 0)) =>
                /\ parse_prototype(get_next_token(hist.at)).node = Null
                /\ hist.node = Null

(***************************************************************************)
(* C7.  parse_toplevel_expr returns a FunctionExpr whose prototype has the *)
(* reserved name __anon_expr and no parameters and whose body is exactly   *)
(* the tree parse_expr yields; when parse_expr fails it returns no node.   *)
(* "3.14" yields the anonymous function wrapping NumExpr(3.14).            *)
(***************************************************************************)
C7_AnonymousWrapper ==
    hist.op = "toplevel_expr" =>
        LET e == parse_expr(hist.at)
        IN  /\ hist.node =
                   IF e.node # Null
                   THEN FunctionExpr(FuncPrototype("__anon_expr", <<>>),
                                     e.node)
                   ELSE Null
            /\ SameCursor(hist.ret, e.s)
            /\ (InputIs(InNumber) /\ hist.prev.op = "start") =>
                   hist.node =
                       FunctionExpr(FuncPrototype("__anon_expr", <<>>),
                                    NumExpr(<<314, 2>>))

\* "3.14" has been parsed and wrapped.
C7_Witness ==
    /\ hist.op = "toplevel_expr"
    /\ InputIs(InNumber)
    /\ hist.node # Null
    /\ hist.node.body = NumExpr(<<314, 2>>)

\* The text begins with the given characters and this is the first
\* iteration of main_loop.
InputBegins(text) ==
    /\ Len(input) >= Len(text)
    /\ SubSeq(input, 1, Len(text)) = text
    /\ hist.prev.op = "start"

(***************************************************************************)
(* C8.  parse_extern consumes 'extern' and returns exactly the Prototype   *)
(* parse_prototype yields for the following tokens, with no body and       *)
(* without parsing anything after the closing ')': it returns in the state *)
(* parse_prototype returns in, which for a non-empty parameter list is the *)
(* one just after ')'.  "extern sin(x)" yields Prototype{sin,[x]}.         *)
(***************************************************************************)
C8_ExternPrototype ==
    hist.op = "extern" =>
        LET proto == parse_prototype(get_next_token(hist.at))
            eaten == Consumed(hist.at, hist.ret)
        IN  /\ hist.node = proto.node
            /\ SameCursor(hist.ret, proto.s)
            /\ hist.node # Null => hist.node.type = "FuncPrototype"
            /\ (hist.node # Null /\ hist.node.args # <<>>) =>
                   /\ eaten[1].tok = tok_extern
                   /\ eaten[Len(eaten)].tok = ")"
            /\ InputBegins(InExtern) =>
                   /\ hist.node = FuncPrototype("sin", <<VarExpr("x")>>)
                   /\ Len(eaten) = 5

\* "extern sin(x)" followed by an expression has been parsed; the
\* expression's first token is the current one.
C8_Witness ==
    /\ hist.op = "extern"
    /\ InputBegins(InExtern)
    /\ hist.node = FuncPrototype("sin", <<VarExpr("x")>>)
    /\ hist.ret.CurTok = tok_num

(***************************************************************************)
(* C9.  After a top-level parse fails the driver skips exactly one token   *)
(* before retrying: the next token it dispatches on is the token           *)
(* immediately following the one that was current when the failure was     *)
(* signalled.                                                              *)
(***************************************************************************)
C9_SkipOneToken ==
    (hist.op # "start" /\ Failed(hist.prev)) =>
        SameCursor(hist.at, get_next_token(hist.prev.ret))

\* The messages of the rule that detects a failure, and those of the rules
\* a failure passes through.
Detecting ==
    {"unknown token type", "expected ',' or ')' in argument list",
     "expected function name", "expected ("}
Passing ==
    {"failed to parse argument",
     "could not parse right hand side of binary expression",
     "in argument list in function prototype expected identifier",
     "expected function body"}

RECURSIVE StatesFrom(_)
StatesFrom(s) ==
    IF s.CurTok = EndTok THEN <<s>>
    ELSE <<s>> \o StatesFrom(get_next_token(s))

(***************************************************************************)
(* C11.  parse_primary succeeds only when the current token is an          *)
(* identifier or a number; for every other current token (keyword,         *)
(* end-of-input, any single-character symbol including '(') it returns     *)
(* failure, having written "unknown token type", and leaves the current    *)
(* token unchanged: it consumes nothing.                                   *)
(* Stated for parse_primary called on each token from the dispatched one   *)
(* to the end of the input.                                                *)
(***************************************************************************)
C11_PrimaryConsumesNothing ==
    LET ss == StatesFrom(hist.at)
    IN  \A i \in 1..Len(ss) :
            LET p == parse_primary(ss[i])
            IN  /\ p.node # Null => ss[i].CurTok \in {tok_ident, tok_num}
                /\ ss[i].CurTok \notin {tok_ident, tok_num} =>
                       /\ p.node = Null
                       /\ SameCursor(p.s, ss[i])
                       /\ p.s.stderr =
                              Append(ss[i].stderr,
                                     [msg |-> "unknown token type",
                                      tok |-> ss[i].CurTok])

\* parse_expr, called on '(', has failed in parse_primary with '(' still
\* the current token.
C11_Witness ==
    /\ hist.op = "toplevel_expr"
    /\ hist.at.CurTok = "("
    /\ hist.node = Null
    /\ SameCursor(hist.ret, hist.at)

\* The operators of the BinaryExpr nodes of a tree.
RECURSIVE Ops(_)
Ops(n) ==
    CASE n.type = "BinaryExpr" -> {n.op} \cup Ops(n.lhs) \cup Ops(n.rhs)
      [] n.type \in {"CallExpr", "FuncPrototype"} ->
            UNION {Ops(n.args[i]) : i \in 1..Len(n.args)}
      [] n.type = "FunctionExpr" -> Ops(n.proto) \cup Ops(n.body)
      [] OTHER -> {}

(***************************************************************************)
(* C12.  Every BinaryOp node the parser produces has an operator in        *)
(* {+, -, *}; when the token after a primary is any other symbol (such as  *)
(* '/'), parse_expr stops extending, returns the expression built so far   *)
(* and leaves that symbol as the current token: "def1/2" yields the        *)
(* variable def1 with '/' current.                                         *)
(***************************************************************************)
C12_OperatorsOnly ==
    LET ss  == StatesFrom(hist.at)
        lhs == VarExpr("lhs")
    IN  /\ Ops(hist.node) \subseteq {"+", "-", "*"}
        /\ \A i \in 1..Len(ss) :
               ss[i].CurTok \notin {"+", "-", "*"} =>
                   parse_binop_rhs(ss[i], lhs) = [node |-> lhs, s |-> ss[i]]
        /\ hist.op = "toplevel_expr" =>
               LET e == parse_expr(hist.at)
               IN  /\ e.node # Null =>
                          /\ Ops(e.node) \subseteq {"+", "-", "*"}
                          /\ e.s.CurTok \notin {"+", "-", "*"}
                   /\ InputBegins(InSlash) =>
                          /\ e.node = VarExpr("def1")
                          /\ e.s.CurTok = "/"

\* "def1/2": parse_expr has returned the variable and left '/' current.
C12_Witness ==
    /\ hist.op = "toplevel_expr"
    /\ InputBegins(InSlash)
    /\ hist.node # Null
    /\ hist.node.body = VarExpr("def1")
    /\ hist.ret.CurTok = "/"

\* The maximal run of alphanumeric characters of the input from index p.
RECURSIVE AlnumRun(_)
AlnumRun(p) ==
    IF p <= Len(input) /\ isalnum(input[p])
    THEN input[p] \o AlnumRun(p + 1)
    ELSE ""

\* The length of that run.
RECURSIVE AlnumCount(_)
AlnumCount(p) ==
    IF p <= Len(input) /\ isalnum(input[p]) THEN 1 + AlnumCount(p + 1) ELSE 0

\* gettok called in state s, when what follows the whitespace is a run of
\* alphanumeric characters starting with a letter: the token is the keyword
\* exactly when the run is the keyword's text, else an identifier with the
\* whole run as its text; the run is read to its end and no further.
KeywordRule(s) ==
    LET w    == SkipSpace(s)
        g    == gettok(s)
        run  == w.last_char \o AlnumRun(w.pos + 1)
        last == w.pos + AlnumCount(w.pos + 1)      \* index of its last char
    IN  isalpha(w.last_char) =>
            /\ g.tok = tok_def <=> run = "def"
            /\ g.tok = tok_extern <=> run = "extern"
            /\ g.tok \notin {tok_def, tok_extern} => g.tok = tok_ident
            /\ g.s.IdentStr = run
            /\ IF last = Len(input)
               THEN /\ g.s.pos = last
                    /\ g.s.last_char = ToChar(charSigned, EOF)
               ELSE /\ g.s.pos = last + 1
                    /\ g.s.last_char = input[last + 1]

(***************************************************************************)
(* C13.  For every maximal run of alphanumeric characters that starts      *)
(* with a letter, gettok returns tok_def iff the run is exactly "def",     *)
(* tok_extern iff it is exactly "extern", and otherwise tok_ident with the *)
(* whole run as IdentStr: "define", "def1" and "externs" are identifiers.  *)
(* Stated for gettok called at each token from the dispatched one on.      *)
(***************************************************************************)
C13_Keywords ==
    LET ss == StatesFrom(hist.at)
    IN  /\ \A i \in 1..Len(ss) : KeywordRule(ss[i])
        /\ (hist.op # "start" /\ InputBegins(InKeywordLike)) =>
               /\ Cur(hist.at).tok = tok_ident
               /\ hist.at.IdentStr = "define"
               /\ get_next_token(hist.at).CurTok = tok_ident
               /\ get_next_token(hist.at).IdentStr = "externs"
        /\ (hist.op # "start" /\ InputBegins(InSlash)) =>
               /\ Cur(hist.at).tok = tok_ident
               /\ hist.at.IdentStr = "def1"
        /\ (hist.op # "start" /\ InputBegins(InExtern)) => hist.at.CurTok = tok_extern
        /\ (hist.op # "start" /\ InputBegins(InDefCommas)) => hist.at.CurTok = tok_def

\* "define externs": define has been parsed as a variable, and externs is
\* the identifier that follows.
C13_Witness ==
    /\ hist.op = "toplevel_expr"
    /\ InputBegins(InKeywordLike)
    /\ hist.node # Null
    /\ hist.node.body = VarExpr("define")
    /\ hist.ret.CurTok = tok_ident
    /\ hist.ret.IdentStr = "externs"

\* The statics as main finds them.
InitSt == [last_char |-> " ", pos |-> 0, IdentStr |-> "", NumVal |-> <<0, 0>>,
           CurTok |-> CharNUL, stderr |-> <<>>]

\* The lexer of s (last_char and the place in the input) with every other
\* static as at the start of the program.
Fresh(s) == [InitSt EXCEPT !.last_char = s.last_char, !.pos = s.pos]

\* A token with its payload: the text of an identifier, the value of a
\* number.
Lexeme(s) ==
    [tok  |-> s.CurTok,
     text |-> IF s.CurTok = tok_ident THEN s.IdentStr ELSE "",
     num  |-> IF s.CurTok = tok_num THEN s.NumVal ELSE <<0, 0>>]

\* The tokens with their payloads from the current one of s to the end of
\* the input, the end token included.
RECURSIVE LexemesFrom(_)
LexemesFrom(s) ==
    IF s.CurTok = EndTok THEN <<Lexeme(s)>>
    ELSE <<Lexeme(s)>> \o LexemesFrom(get_next_token(s))

(***************************************************************************)
(* C14.  The lexer is deterministic in its remaining input: two runs of    *)
(* gettok on the same character stream produce the same sequence of tokens *)
(* and payloads, call for call.  What gettok returns from a state depends  *)
(* on last_char and the unread input only, not on what IdentStr, NumVal    *)
(* and CurTok hold from earlier calls; and the token the driver dispatches *)
(* on, read while forms were being parsed, is with its payload and its     *)
(* place in the input a token of the run of gettok alone from the initial  *)
(* lexer state.                                                            *)
(***************************************************************************)
C14_Deterministic ==
    LET run == StatesFrom(InitSt)
    IN  /\ \A s \in {hist.ret, St} :
               LexemesFrom(get_next_token(s))
                   = LexemesFrom(get_next_token(Fresh(s)))
        /\ hist.op # "start" =>
               \E i \in 1..Len(run) :
                   /\ Lexeme(hist.at) = Lexeme(run[i])
                   /\ hist.at.pos = run[i].pos
                   /\ hist.at.last_char = run[i].last_char

\* The token dispatched on carries a payload and was read by gettok with
\* another identifier and a number left in IdentStr and NumVal by the form
\* parsed before.
C14_Witness ==
    /\ hist.op = "toplevel_expr"
    /\ hist.prev.op = "toplevel_expr"
    /\ hist.at.CurTok = tok_ident
    /\ hist.prev.ret.IdentStr \notin {"", hist.at.IdentStr}
    /\ hist.prev.ret.NumVal # <<0, 0>>

(***************************************************************************)
(* C15.  On every finite input the driver loop terminates: main_loop       *)
(* eventually reads the end-of-input token at its dispatch point and       *)
(* returns, whatever mix of well-formed and malformed forms the input      *)
(* contains.                                                               *)
(***************************************************************************)
C15_Terminates == <>(pc = "done")

\* How many of the tokens ts are the symbol c.
Count(ts, c) == Len(SelectSeq(ts, LAMBDA x : x.tok = c))

(***************************************************************************)
(* C16.  Whenever parse_ident returns a Call, every token of the call      *)
(* through its closing ')' has been consumed, for empty and non-empty      *)
(* argument lists alike, so the current token is the one following ')';    *)
(* hence "foo() + 1" parses to BinaryOp(+, Call{foo,[]}, 1).               *)
(* Stated for parse_ident called on each identifier of a top-level         *)
(* expression, from the dispatched token on.                               *)
(***************************************************************************)
C16_CallConsumed ==
    LET ss == StatesFrom(hist.at)
    IN  /\ \A i \in 1..(IF hist.op = "toplevel_expr" THEN Len(ss) ELSE 0) :
               LET p     == parse_ident(ss[i])
                   eaten == Consumed(ss[i], p.s)
               IN  (ss[i].CurTok = tok_ident /\ p.node.type = "CallExpr") =>
                       /\ eaten[Len(eaten)].tok = ")"
                       /\ Count(eaten, "(") = Count(eaten, ")")
        /\ (hist.op = "toplevel_expr" /\ hist.prev.op = "start"
               /\ InputIs(InCallEmpty \o <<" ", "+", " ", "1">>)) =>
               hist.node =
                   FunctionExpr(FuncPrototype("__anon_expr", <<>>),
                                BinaryExpr("+", CallExpr("foo", <<>>),
                                           NumExpr(<<1, 0>>)))

(***************************************************************************)
(* C17.  A definition whose prototype has an empty parameter list followed *)
(* by a well-formed body (e.g. "def foo() 1") parses to a FunctionExpr     *)
(* with a zero-parameter prototype and that body: parse_prototype consumes *)
(* the closing ')' before parse_definition parses the body.                *)
(* Stated for bodies that are chains of numbers and variables.             *)
(***************************************************************************)
C17_EmptyParams ==
    hist.op = "definition" =>
        LET ts    == TokensFrom(hist.at)
            body  == ChainTree(SubSeq(ts, 5, Len(ts)), FALSE)
            proto == parse_prototype(get_next_token(hist.at))
        IN  (/\ Len(ts) >= 5
             /\ ts[2].tok = tok_ident
             /\ ts[3].tok = "("
             /\ ts[4].tok = ")"
             /\ body # Null) =>
                /\ proto.node = FuncPrototype(ts[2].IdentStr, <<>>)
                /\ Cur(proto.s) = ts[5]
                /\ hist.node = FunctionExpr(proto.node, body)

(***************************************************************************)
(* C18.  The driver never drops a token after a successful parse: when a   *)
(* top-level form parses successfully, the token immediately following     *)
(* that form is the next token the driver dispatches on, so two            *)
(* well-formed forms with no ';' between them (e.g. "1 2") each yield one  *)
(* node, in input order.                                                   *)
(***************************************************************************)
C18_NoTokenDropped ==
    (hist.op # "start" /\ hist.prev.op \in Handlers
         /\ hist.prev.node # Null) =>
        SameCursor(hist.at, hist.prev.ret)

(***************************************************************************)
(* C19.  End-of-input is absorbing for the lexer: once gettok has returned *)
(* tok_eof, every later call to gettok also returns tok_eof and consumes   *)
(* no further characters (gettok returns tok_eof, reading nothing, in      *)
(* every state in which last_char is EOF), so a parse rule that reaches    *)
(* end-of-input mid-form sees end-of-input on every further advance: the   *)
(* handler's recovery and the next dispatch read tok_eof again.            *)
(***************************************************************************)
C19_EofAbsorbing ==
    LET ss == StatesFrom(hist.at) \o <<hist.ret, St>>
    IN  /\ \A i \in 1..Len(ss) :
               /\ ss[i].CurTok = tok_eof =>
                      /\ ss[i].last_char = EOF
                      /\ get_next_token(ss[i]) = ss[i]
                      /\ get_next_token(get_next_token(ss[i])) = ss[i]
               /\ ss[i].last_char = EOF =>
                      /\ get_next_token(ss[i]).CurTok = tok_eof
                      /\ get_next_token(ss[i]).pos = ss[i].pos
                      /\ get_next_token(ss[i]).last_char = EOF
        /\ (Failed(hist) /\ hist.ret.CurTok = tok_eof) =>
               /\ CurTok = tok_eof
               /\ Dispatch.CurTok = tok_eof
               /\ pos = hist.ret.pos

\* A form that began before the end of the input has failed at tok_eof, and
\* tok_eof is the current token again after the handler's get_next_token().
C19_Witness ==
    /\ Failed(hist)
    /\ hist.at.CurTok # tok_eof
    /\ hist.ret.CurTok = tok_eof
    /\ CurTok = tok_eof
    /\ pc = "loop"

====
